---- MODULE Spec2Model ----
(***************************************************************************)
(* membuffer (src/src/lib.rs): MemBufferWriter collects typed fields into  *)
(* a descriptor table and a payload, finalize() lays them out as           *)
(*   { offset:i32 length:i32 type:i32 key:i32 }*  0x7AFECAFE  payload      *)
(* and MemBufferReader::new parses the table back and decodes fields on    *)
(* demand.  Buffers are sequences of bytes (0..255); every i32 is four     *)
(* bytes.  A driver, as in the crate's tests, builds writers, finalizes    *)
(* one into a buffer, constructs a reader over the buffer and loads        *)
(* entries from it.                                                        *)
(***************************************************************************)
EXTENDS Integers, Sequences, FiniteSets, TLC

\* ------------------------------------------------------------------ bounds
\* Number of add_entry calls of one run of the driver.
MaxAdds == 2

\* --------------------------------------------------------------- constants
\* The end-of-table marker 0x7AFECAFE.
Sentinel == 2063518462

\* MemBufferTypes as i32.
Text == 0
Integer32 == 1
VectorU8 == 2
VectorU64 == 3
MemBuffer == 4

\* Bytes of one descriptor record, and of a record plus the next offset slot.
RecordSize == 16
RecordAndSlot == 20

BuiltinTypes == {Text, Integer32, VectorU8, VectorU64, MemBuffer}

\* ---------------------------------------------------------- i32 <-> bytes
\* The most significant byte of a negative i32 has its top bit set; the
\* arithmetic stays inside the 32-bit range at every step.
ByteAt(n, i) ==
    CASE i = 0 -> n % 256
      [] i = 1 -> (n \div 256) % 256
      [] i = 2 -> (n \div 65536) % 256
      [] OTHER -> (n \div 16777216) % 256

\* The four bytes of v in order of significance, least significant first.
LowFirst(v) ==
    IF v >= 0
    THEN << ByteAt(v, 0), ByteAt(v, 1), ByteAt(v, 2), ByteAt(v, 3) >>
    ELSE LET m == (v + 2147483647) + 1
         IN << ByteAt(m, 0), ByteAt(m, 1), ByteAt(m, 2), ByteAt(m, 3) + 128 >>

Reverse4(b) == << b[4], b[3], b[2], b[1] >>

\* The byte order of the machine: NativeEndian of the byteorder crate.
Endians == {"little", "big"}

\* write_i32::<NativeEndian>(val): the four bytes appended to the vector.
serialize_i32_to(val, e) ==
    IF e = "little" THEN LowFirst(val) ELSE Reverse4(LowFirst(val))

\* read_i32::<NativeEndian>() on a slice of at least four bytes.
deserialize_i32_from(buffer, e) ==
    LET b == IF e = "little"
             THEN << buffer[1], buffer[2], buffer[3], buffer[4] >>
             ELSE << buffer[4], buffer[3], buffer[2], buffer[1] >>
        top == IF b[4] >= 128 THEN b[4] - 256 ELSE b[4]
    IN b[1] + 256 * b[2] + 65536 * b[3] + 16777216 * top

\* ------------------------------------------------------------ slice helpers
\* s[from .. to) of a Rust slice, with 0-based from and to.
Slice(s, from, to) == SubSeq(s, from + 1, to)

\* &mem[offset as usize .. (offset+length) as usize] is in bounds.  A negative
\* i32 cast to usize is larger than any slice; offset+length that overflows
\* i32 panics (debug) or wraps to a negative number (release), so every such
\* range is out of bounds as well.
RangeInBounds(offset, length, n) ==
    /\ offset >= 0
    /\ length >= 0
    /\ offset <= n
    /\ length <= n - offset

\* -------------------------------------------------------------- hash map
\* std::collections::HashMap<i32, InternPosition> is a function from the keys
\* it holds to their descriptors.  insert() adds the key or replaces its
\* descriptor.
MapInsert(m, key, val) == (key :> val) @@ m

\* The orders in which iter() may visit the keys of a map: HashMap promises
\* none, and an insert may rehash the table.
IterOrders(keys) ==
    { s \in [1..Cardinality(keys) -> keys] :
        \A i, j \in 1..Cardinality(keys) : i # j => s[i] # s[j] }

\* --------------------------------------------------------------- utf-8
IsCont(b) == b >= 128 /\ b <= 191

\* The number of bytes of the well-formed UTF-8 sequence s starts with, or
\* 0 when it starts with none.
Utf8Head(s) ==
    LET n == Len(s)
        b1 == s[1]
    IN CASE b1 <= 127 -> 1
         [] b1 >= 194 /\ b1 <= 223 ->
              IF n >= 2 /\ IsCont(s[2]) THEN 2 ELSE 0
         [] b1 >= 224 /\ b1 <= 239 ->
              IF /\ n >= 3
                 /\ IsCont(s[2])
                 /\ IsCont(s[3])
                 /\ (b1 = 224 => s[2] >= 160)
                 /\ (b1 = 237 => s[2] <= 159)
              THEN 3 ELSE 0
         [] b1 >= 240 /\ b1 <= 244 ->
              IF /\ n >= 4
                 /\ IsCont(s[2])
                 /\ IsCont(s[3])
                 /\ IsCont(s[4])
                 /\ (b1 = 240 => s[2] >= 144)
                 /\ (b1 = 244 => s[2] <= 143)
              THEN 4 ELSE 0
         [] OTHER -> 0

RECURSIVE ValidUtf8(_)
\* What std::str::from_utf8 accepts; from_utf8_unchecked requires it.
ValidUtf8(s) ==
    IF s = << >> THEN TRUE
    ELSE LET h == Utf8Head(s)
         IN h > 0 /\ ValidUtf8(SubSeq(s, h + 1, Len(s)))

\* ------------------------------------------------------------- u64 words
\* A u64 is written as its eight bytes, least significant first; in memory
\* they lie in the machine's byte order.
Reverse8(w) == << w[8], w[7], w[6], w[5], w[4], w[3], w[2], w[1] >>

WordBytes(w, e) == IF e = "little" THEN w ELSE Reverse8(w)

RECURSIVE WordsToBytes(_, _)
\* The memory of a [u64] viewed as bytes (as_ptr().cast::<u8>()).
WordsToBytes(words, e) ==
    IF words = << >> THEN << >>
    ELSE WordBytes(Head(words), e) \o WordsToBytes(Tail(words), e)

\* count u64 read from the start of mem (as_ptr().cast::<u64>()); mem holds
\* at least 8 * count bytes.
BytesToWords(mem, count, e) ==
    [ i \in 1..count |-> WordBytes(SubSeq(mem, 8 * (i - 1) + 1, 8 * i), e) ]

\* ------------------------------------------------------------------ writer
\* MemBufferWriter::new().  order is the order in which offsets.iter()
\* visits the keys.
NewWriter == [ offsets |-> << >>, order |-> << >>, data |-> << >> ]

RECURSIVE Records(_, _, _)
\* The records finalize() writes for the keys in iteration order.
Records(order, offsets, e) ==
    IF order = << >> THEN << >>
    ELSE LET key == Head(order)
             val == offsets[key]
         IN serialize_i32_to(val.pos.offset, e)
              \o serialize_i32_to(val.pos.length, e)
              \o serialize_i32_to(val.variable_type, e)
              \o serialize_i32_to(key, e)
              \o Records(Tail(order), offsets, e)

\* MemBufferWriter::finalize(&self): the table, the sentinel, the payload.
finalize(w, e) ==
    Records(w.order, w.offsets, e) \o serialize_i32_to(Sentinel, e) \o w.data

\* finalize that takes the payload out of the writer (Vec::append) where
\* the code copies it.
after_finalize_drained(w) == [ w EXCEPT !.data = << >> ]

\* The writer after finalize(&self): the table is iterated and the payload
\* copied (extend_from_slice), neither is taken.
after_finalize(w) == w

\* The Rust types a field is written from and read as.
SerializeTypes == {"&str", "&String", "i32", "&[u8]", "&[u64]", "MemBufferWriter"}

\* MemBufferSerialize::get_mem_buffer_type of each implementation.
get_mem_buffer_type(T) ==
    CASE T = "&str" -> Text
      [] T = "&String" -> Text
      [] T = "i32" -> Integer32
      [] T = "&[u8]" -> VectorU8
      [] T = "&[u64]" -> VectorU64
      [] T = "MemBufferWriter" -> MemBuffer

\* MemBufferSerialize::to_mem_buffer of each implementation: the bytes to
\* append and the position as the call leaves it.  A text is held as its
\* UTF-8 bytes (as_bytes), a nested writer is finalized.
to_mem_buffer(T, val, pos, e) ==
    CASE T = "&str" -> [ slice |-> val, pos |-> pos ]
      [] T = "&String" -> [ slice |-> val, pos |-> pos ]
      [] T = "i32" -> [ slice |-> << >>, pos |-> [pos EXCEPT !.offset = val] ]
      [] T = "&[u8]" -> [ slice |-> val, pos |-> pos ]
      [] T = "&[u64]" -> [ slice |-> WordsToBytes(val, e), pos |-> pos ]
      [] T = "MemBufferWriter" -> [ slice |-> finalize(val, e), pos |-> pos ]

\* add_entry that assigns the encoded slice to the payload where the code
\* extends the payload by it.
add_entry_assigning(w, key, T, val, e, ord) ==
    LET position == [ offset |-> Len(w.data), length |-> 0 ]
        r == to_mem_buffer(T, val, position, e)
        stored == [ r.pos EXCEPT !.length = Len(r.slice) ]
    IN [ offsets |-> MapInsert(w.offsets, key,
                               [ pos |-> stored,
                                 variable_type |-> get_mem_buffer_type(T) ]),
         order |-> ord,
         data |-> r.slice ]

\* add_entry that starts every position at offset 0 where the code starts
\* it at the length of the payload.
add_entry_from_zero(w, key, T, val, e, ord) ==
    LET position == [ offset |-> 0, length |-> 0 ]
        r == to_mem_buffer(T, val, position, e)
        stored == [ r.pos EXCEPT !.length = Len(r.slice) ]
    IN [ offsets |-> MapInsert(w.offsets, key,
                               [ pos |-> stored,
                                 variable_type |-> get_mem_buffer_type(T) ]),
         order |-> ord,
         data |-> w.data \o r.slice ]

\* MemBufferWriter::add_entry(key, val) for a val of type T; ord is the
\* iteration order of the map after the insert.  Both "as i32" casts keep
\* the value: a payload of the model is far shorter than 2^31 bytes.
add_entry(w, key, T, val, e, ord) ==
    LET position == [ offset |-> Len(w.data), length |-> 0 ]
        r == to_mem_buffer(T, val, position, e)
        stored == [ r.pos EXCEPT !.length = Len(r.slice) ]
    IN [ offsets |-> MapInsert(w.offsets, key,
                               [ pos |-> stored,
                                 variable_type |-> get_mem_buffer_type(T) ]),
         order |-> ord,
         data |-> w.data \o r.slice ]

\* ------------------------------------------------------------------ reader
WrongFormat == [ tag |-> "WrongFormat" ]

RECURSIVE ParseTable(_, _, _)
\* The loop of MemBufferReader::new over current_slice, which holds at least
\* four bytes whenever the loop is entered.
ParseTable(current_slice, offsets, e) ==
    LET position_offset == deserialize_i32_from(current_slice, e)
    IN IF position_offset = Sentinel
       THEN [ tag |-> "Ok",
              offsets |-> offsets,
              data |-> Slice(current_slice, 4, Len(current_slice)) ]
       ELSE IF Len(current_slice) < RecordAndSlot
       THEN WrongFormat
       ELSE LET position_length ==
                    deserialize_i32_from(Slice(current_slice, 4, 8), e)
                position_type ==
                    deserialize_i32_from(Slice(current_slice, 8, 12), e)
                key == deserialize_i32_from(Slice(current_slice, 12, 16), e)
            IN ParseTable(
                   Slice(current_slice, RecordSize, Len(current_slice)),
                   MapInsert(offsets, key,
                             [ pos |-> [ offset |-> position_offset,
                                         length |-> position_length ],
                               variable_type |-> position_type ]),
                   e)

\* MemBufferReader::new(val).
MemBufferReader_new(val, e) ==
    IF Len(val) < 4 THEN WrongFormat ELSE ParseTable(val, << >>, e)

\* MemBufferReader::len and payload_len.
len(r) == Cardinality(DOMAIN r.offsets)
payload_len(r) == Len(r.data)

\* ----------------------------------------------------------------- decode
\* What a load ends with: Ok with the value, one of the three MemBufferError
\* kinds, a panic, or undefined behaviour (an unsafe precondition broken).
Ok(v) == [ tag |-> "Ok", val |-> v ]
Panic == [ tag |-> "Panic" ]
Undefined == [ tag |-> "UB" ]

\* The ways a build may carry on after undefined behaviour that the
\* hardware tolerates (a misaligned read, a str that is not UTF-8).
UBOutcomes == {"benign", "crash"}

\* The address of a reader's payload modulo the alignment of u64.
Alignments == 0..7

\* MemBufferDeserialize::from_mem_buffer of each implementation.  addr is
\* the address of mem modulo 8 and ub the way undefined behaviour ends.
from_mem_buffer(X, pos, mem, e, addr, ub) ==
    CASE X = "&str" ->
           IF ~RangeInBounds(pos.offset, pos.length, Len(mem)) THEN Panic
           ELSE LET s == Slice(mem, pos.offset, pos.offset + pos.length)
                IN IF ValidUtf8(s) \/ ub = "benign" THEN Ok(s) ELSE Undefined
      [] X = "i32" -> Ok(pos.offset)
      [] X = "&[u8]" ->
           IF ~RangeInBounds(pos.offset, pos.length, Len(mem)) THEN Panic
           ELSE Ok(Slice(mem, pos.offset, pos.offset + pos.length))
      [] X = "&[u64]" ->
           IF ~RangeInBounds(pos.offset, 0, Len(mem)) THEN Panic
           ELSE LET mem_length == pos.length \div 8
                    rest == Slice(mem, pos.offset, Len(mem))
                IN IF mem_length < 0 \/ 8 * mem_length > Len(rest)
                   THEN Undefined
                   ELSE IF (addr + pos.offset) % 8 = 0 \/ ub = "benign"
                   THEN Ok(BytesToWords(rest, mem_length, e))
                   ELSE Undefined
      [] X = "MemBufferReader" ->
           IF ~RangeInBounds(pos.offset, pos.length, Len(mem)) THEN Panic
           ELSE LET reader == MemBufferReader_new(
                                  Slice(mem, pos.offset, pos.offset + pos.length), e)
                IN IF reader.tag = "Ok" THEN Ok(reader) ELSE WrongFormat

\* intern_load_entry with the two tags of FieldTypeError in the other order.
intern_load_entry_swapped(r, key, expected_type, X, e, addr, ub) ==
    IF key \in DOMAIN r.offsets
    THEN LET entry == r.offsets[key]
             is_type == entry.variable_type
         IN IF is_type # expected_type
            THEN [ tag |-> "FieldTypeError", is |-> expected_type,
                   requested |-> is_type ]
            ELSE from_mem_buffer(X, entry.pos, r.data, e, addr, ub)
    ELSE [ tag |-> "FieldUnknown", key |-> key ]

\* intern_load_entry that checks the type first, against an empty text
\* descriptor when the key is missing.
intern_load_entry_defaulted(r, key, expected_type, X, e, addr, ub) ==
    LET entry == IF key \in DOMAIN r.offsets THEN r.offsets[key]
                 ELSE [ pos |-> [ offset |-> 0, length |-> 0 ],
                        variable_type |-> Text ]
        is_type == entry.variable_type
    IN IF is_type # expected_type
       THEN [ tag |-> "FieldTypeError", is |-> is_type,
              requested |-> expected_type ]
       ELSE IF key \in DOMAIN r.offsets
       THEN from_mem_buffer(X, entry.pos, r.data, e, addr, ub)
       ELSE [ tag |-> "FieldUnknown", key |-> key ]

\* MemBufferReader::intern_load_entry::<X>(key, expected_type).
intern_load_entry(r, key, expected_type, X, e, addr, ub) ==
    IF key \in DOMAIN r.offsets
    THEN LET entry == r.offsets[key]
             is_type == entry.variable_type
         IN IF is_type # expected_type
            THEN [ tag |-> "FieldTypeError", is |-> is_type,
                   requested |-> expected_type ]
            ELSE from_mem_buffer(X, entry.pos, r.data, e, addr, ub)
    ELSE [ tag |-> "FieldUnknown", key |-> key ]

\* The types load_entry takes: MemBufferDeserialize + MemBufferSerialize.
LoadTypes == {"&str", "i32", "&[u8]", "&[u64]"}

\* MemBufferReader::load_entry::<_, X>(key).
load_entry(r, key, X, e, addr, ub) ==
    intern_load_entry(r, key, get_mem_buffer_type(X), X, e, addr, ub)

\* MemBufferReader::load_recursive_reader(key).
load_recursive_reader(r, key, e) ==
    intern_load_entry(r, key, get_mem_buffer_type("MemBufferWriter"),
                      "MemBufferReader", e, 0, "benign")

\* ------------------------------------------------------------------ serde
IsSpace(b) == b \in {32, 9, 10, 13}
IsDigit(b) == b >= 48 /\ b <= 57

RECURSIVE TrimLeft(_)
TrimLeft(s) ==
    IF s # << >> /\ IsSpace(Head(s)) THEN TrimLeft(Tail(s)) ELSE s

RECURSIVE TrimRight(_)
TrimRight(s) ==
    IF s # << >> /\ IsSpace(s[Len(s)])
    THEN TrimRight(SubSeq(s, 1, Len(s) - 1)) ELSE s

RECURSIVE DigitsLeq(_, _)
\* Two digit strings of one length, compared as numbers.
DigitsLeq(s, t) ==
    IF s = << >> THEN TRUE
    ELSE IF Head(s) # Head(t) THEN Head(s) < Head(t)
    ELSE DigitsLeq(Tail(s), Tail(t))

RECURSIVE DigitsValue(_, _, _)
DigitsValue(s, acc, sign) ==
    IF s = << >> THEN acc
    ELSE DigitsValue(Tail(s), acc * 10 + sign * (Head(s) - 48), sign)

\* "2147483647" and "2147483648".
MaxI32Digits == << 50, 49, 52, 55, 52, 56, 51, 54, 52, 55 >>
MinI32Digits == << 50, 49, 52, 55, 52, 56, 51, 54, 52, 56 >>

\* serde_json::from_str::<i32>(s): a JSON integer of the range of i32 with
\* white space around it, and nothing else.
from_str_i32(s) ==
    LET t == TrimRight(TrimLeft(s))
        neg == t # << >> /\ Head(t) = 45
        d == IF neg THEN Tail(t) ELSE t
        wellformed ==
            /\ d # << >>
            /\ \A i \in 1..Len(d) : IsDigit(d[i])
            /\ (Len(d) > 1 => d[1] # 48)
            /\ ~(neg /\ d = << 48 >>)
        fits ==
            \/ Len(d) < 10
            \/ Len(d) = 10
                 /\ DigitsLeq(d, IF neg THEN MinI32Digits ELSE MaxI32Digits)
    IN IF wellformed /\ fits
       THEN [ ok |-> TRUE, val |-> DigitsValue(d, 0, IF neg THEN 0 - 1 ELSE 1) ]
       ELSE [ ok |-> FALSE, val |-> 0 ]

\* MemBufferReader::load_serde_entry::<_, i32>(key): the text is loaded
\* (an error returns, by ?) and the parse is unwrapped.
load_serde_entry(r, key, e, ub) ==
    LET string == load_entry(r, key, "&str", e, 0, ub)
    IN IF string.tag # "Ok" THEN string
       ELSE LET parsed == from_str_i32(string.val)
            IN IF parsed.ok THEN Ok(parsed.val) ELSE Panic

\* ------------------------------------------------------------------ driver
\* The driver owns two writers (either may be moved into the other as a
\* nested buffer), the byte vector of the last finalize or the input it was
\* started with, the reader built over that vector and the result of the
\* last load
\* (one result at a time).  written, source and expect are the driver's own record of
\* what it wrote, as the locals of a test are.
VARIABLES endian, writers, live, written, adds, buf, source, reader, expect, res

vars == << endian, writers, live, written, adds, buf, source, reader, expect, res >>

WriterIds == {1, 2}

\* The writer whose finalize the driver reads back; the other one reaches a
\* buffer as a nested writer (the two are alike, and either nests in the
\* other).
Finalized == {1}

\* Keys the driver writes, and keys it looks up.
Keys == {0, 1}
LookupKeys == Keys \cup {3}

\* Values the driver writes: "1" and "e-acute" as texts, two integers (one
\* of them the value of the sentinel), a byte vector and a vector of one u64.
TextVals == { << 49 >>, << 195, 169 >> }
I32Vals == { 100, Sentinel }
U8Vals == { << 200, 0 >> }
U64Vals == { << << 1, 2, 3, 4, 5, 6, 7, 8 >> >> }

NoReader == [ tag |-> "None" ]
NoResult == [ op |-> "none" ]
NoSource == [ kind |-> "none", writer |-> 0, of |-> << >> ]
NoExpect == [ known |-> FALSE, depth |-> 0, map |-> << >> ]

\* The driver's note of one add_entry: the type and value written and the
\* types written under the same key before.
Note(old, key, T, val) ==
    [ T |-> T, val |-> val,
      prev |-> IF key \in DOMAIN old THEN Append(old[key].prev, old[key].T)
               ELSE << >> ]

\* One descriptor record, the sentinel and a payload: a buffer as another
\* program could have produced it.
Craft(offset, length, type, key, payload, e) ==
    serialize_i32_to(offset, e) \o serialize_i32_to(length, e)
      \o serialize_i32_to(type, e) \o serialize_i32_to(key, e)
      \o serialize_i32_to(Sentinel, e) \o payload

CraftPayloads == { << >>, << 1, 2, 3, 4, 5, 6, 7, 255 >> }

\* The byte vectors the driver may be started with.
InputBuffers(e) ==
    { Craft(o, l, t, 0, p, e) :
        o \in {0, 1, 0 - 1, 2147483647}, l \in {8, 9, 0 - 8, 2147483647},
        t \in BuiltinTypes, p \in CraftPayloads }
    \cup { SubSeq(Craft(0, 1, Text, 0, << 65 >>, e), 1, n) : n \in 0..21 }

Init ==
    /\ endian \in Endians
    /\ writers = [ i \in WriterIds |-> NewWriter ]
    /\ live = WriterIds
    /\ written = [ i \in WriterIds |-> << >> ]
    /\ adds = 0
    /\ buf \in InputBuffers(endian)
    /\ source = [ kind |-> "input", writer |-> 0, of |-> << >> ]
    /\ reader = NoReader
    /\ expect = NoExpect
    /\ res = NoResult

\* writers[i].add_entry(key, val) with val of type T.  The driver writes
\* while it holds no buffer of an earlier finalize.
AddValue(i, key, T, val) ==
    /\ i \in live
    /\ source.kind = "none"
    /\ adds < MaxAdds
    /\ \E ord \in IterOrders(DOMAIN writers[i].offsets \cup {key}) :
         writers' = [ writers EXCEPT
                        ![i] = add_entry(writers[i], key, T, val, endian, ord) ]
    /\ written' = [ written EXCEPT
                      ![i] = MapInsert(written[i], key,
                                       Note(written[i], key, T, val)) ]
    /\ adds' = adds + 1
    /\ UNCHANGED << endian, live, buf, source, reader, expect, res >>

AddText(i, key) == \E val \in TextVals : AddValue(i, key, "&str", val)
AddI32(i, key) == \E val \in I32Vals : AddValue(i, key, "i32", val)
AddVecU8(i, key) == \E val \in U8Vals : AddValue(i, key, "&[u8]", val)
AddVecU64(i, key) == \E val \in U64Vals : AddValue(i, key, "&[u64]", val)

\* writers[i].add_entry(key, writers[j]): writer j is moved into the call.
AddWriter(i, j, key) ==
    /\ i \in live
    /\ j \in live
    /\ i # j
    /\ source.kind = "none"
    /\ adds < MaxAdds
    /\ \E ord \in IterOrders(DOMAIN writers[i].offsets \cup {key}) :
         writers' = [ writers EXCEPT
                        ![i] = add_entry(writers[i], key, "MemBufferWriter",
                                         writers[j], endian, ord),
                        ![j] = NewWriter ]
    /\ written' = [ written EXCEPT
                      ![i] = MapInsert(written[i], key,
                                       Note(written[i], key, "MemBufferWriter",
                                            [ map |-> written[j],
                                              w |-> writers[j] ])),
                      ![j] = << >> ]
    /\ live' = live \ {j}
    /\ adds' = adds + 1
    /\ UNCHANGED << endian, buf, source, reader, expect, res >>

\* let mut writer = MemBufferWriter::new() in place of a moved writer.
CreateWriter(j) ==
    /\ j \notin live
    /\ source.kind = "none"
    /\ live' = live \cup {j}
    /\ UNCHANGED << endian, writers, written, adds, buf, source, reader, expect, res >>

\* let result = writers[i].finalize().
Finalize(i) ==
    /\ i \in live
    /\ source.kind = "none"
    /\ buf' = finalize(writers[i], endian)
    /\ writers' = [ writers EXCEPT ![i] = after_finalize(writers[i]) ]
    /\ source' = [ kind |-> "finalize", writer |-> i, of |-> written[i] ]
    /\ UNCHANGED << endian, live, written, adds, reader, expect, res >>

\* writers[i].finalize() once more, while the driver holds the result of
\* the first call (assert_eq!(writer.finalize(), result) in the tests).
FinalizeAgain(i) ==
    /\ i \in live
    /\ source.kind = "finalize"
    /\ source.writer = i
    /\ reader = NoReader
    /\ res = NoResult
    /\ res' = [ op |-> "finalize", key |-> 0, X |-> "Vec<u8>",
                out |-> Ok(finalize(writers[i], endian)) ]
    /\ writers' = [ writers EXCEPT ![i] = after_finalize(writers[i]) ]
    /\ UNCHANGED << endian, live, written, adds, buf, source, reader, expect >>

\* let reader = MemBufferReader::new(&result).
ReaderNew ==
    /\ source.kind # "none"
    /\ reader = NoReader
    /\ res = NoResult
    /\ reader' = MemBufferReader_new(buf, endian)
    /\ expect' = [ known |-> source.kind = "finalize", depth |-> 0,
                   map |-> source.of ]
    /\ UNCHANGED << endian, writers, live, written, adds, buf, source, res >>

\* reader.load_entry::<i32, X>(key).
LoadEntry(key, X) ==
    /\ reader.tag = "Ok"
    /\ res = NoResult
    /\ \E addr \in (IF X = "&[u64]" THEN Alignments ELSE {0}) :
         \E ub \in (IF X \in {"&[u64]", "&str"} THEN UBOutcomes ELSE {"benign"}) :
           res' = [ op |-> "load_entry", key |-> key, X |-> X,
                    out |-> load_entry(reader, key, X, endian, addr, ub) ]
    /\ UNCHANGED << endian, writers, live, written, adds, buf, source, reader, expect >>

\* reader.load_serde_entry::<i32, i32>(key).
LoadSerdeEntry(key) ==
    /\ reader.tag = "Ok"
    /\ res = NoResult
    /\ \E ub \in UBOutcomes :
         res' = [ op |-> "load_serde_entry", key |-> key, X |-> "i32",
                  out |-> load_serde_entry(reader, key, endian, ub) ]
    /\ UNCHANGED << endian, writers, live, written, adds, buf, source, reader, expect >>

\* reader.load_recursive_reader(key).
LoadRecursiveReader(key) ==
    /\ reader.tag = "Ok"
    /\ res = NoResult
    /\ res' = [ op |-> "load_recursive_reader", key |-> key,
                X |-> "MemBufferReader",
                out |-> load_recursive_reader(reader, key, endian) ]
    /\ UNCHANGED << endian, writers, live, written, adds, buf, source, reader, expect >>

\* The driver goes on with the nested reader it has just loaded.
Descend ==
    /\ res.op = "load_recursive_reader"
    /\ res.out.tag = "Ok"
    /\ reader' = res.out.val
    /\ expect' =
         IF /\ expect.known
            /\ res.key \in DOMAIN expect.map
            /\ expect.map[res.key].T = "MemBufferWriter"
         THEN [ known |-> TRUE, depth |-> expect.depth + 1,
                map |-> expect.map[res.key].val.map ]
         ELSE [ NoExpect EXCEPT !.depth = expect.depth + 1 ]
    /\ res' = NoResult
    /\ UNCHANGED << endian, writers, live, written, adds, buf, source >>

\* The result of a load goes out of scope; the reader can be asked again.
DropResult ==
    /\ res # NoResult
    /\ res' = NoResult
    /\ UNCHANGED << endian, writers, live, written, adds, buf, source, reader, expect >>

\* &result[0..n]: the driver keeps a proper prefix of the buffer.
Truncate(n) ==
    /\ source.kind = "finalize"
    /\ reader = NoReader
    /\ res = NoResult
    /\ n < Len(buf)
    /\ buf' = SubSeq(buf, 1, n)
    /\ source' = [ source EXCEPT !.kind = "prefix" ]
    /\ UNCHANGED << endian, writers, live, written, adds, reader, expect, res >>

\* The buffer, its reader and the last result go out of scope.
DropBuffer ==
    /\ source.kind # "none"
    /\ buf' = << >>
    /\ source' = NoSource
    /\ reader' = NoReader
    /\ expect' = NoExpect
    /\ res' = NoResult
    /\ UNCHANGED << endian, writers, live, written, adds >>

Next ==
    \/ \E i \in WriterIds, key \in Keys : AddText(i, key)
    \/ \E i \in WriterIds, key \in Keys : AddI32(i, key)
    \/ \E i \in WriterIds, key \in Keys : AddVecU8(i, key)
    \/ \E i \in WriterIds, key \in Keys : AddVecU64(i, key)
    \/ \E i \in WriterIds, j \in WriterIds, key \in Keys : AddWriter(i, j, key)
    \/ \E j \in WriterIds : CreateWriter(j)
    \/ \E i \in Finalized : Finalize(i)
    \/ \E i \in Finalized : FinalizeAgain(i)
    \/ ReaderNew
    \/ \E key \in LookupKeys, X \in LoadTypes : LoadEntry(key, X)
    \/ \E key \in LookupKeys : LoadSerdeEntry(key)
    \/ \E key \in LookupKeys : LoadRecursiveReader(key)
    \/ Descend
    \/ DropResult
    \/ DropBuffer

Spec == Init /\ [][Next]_vars

\* The driver that also cuts finalized buffers short.
NextCut == Next \/ \E n \in 0..(Len(buf) - 1) : Truncate(n)

SpecCut == Init /\ [][NextCut]_vars
\* ------------------------------------------------------------------ claims
\* The reader the driver built over the buffer itself (not a nested one).
TopReader == reader.tag # "None" /\ expect.depth = 0

\* The driver wrote key into the writer the reader's buffer comes from, and
\* the last value it wrote there was of Rust type T.
WroteAs(key, T) ==
    /\ expect.known
    /\ key \in DOMAIN expect.map
    /\ expect.map[key].T = T

\* C1: round trip.  After any sequence of add_entry calls, the reader over
\* the finalized buffer is constructed, and loading a written key as the
\* type last written under it returns the value last written (a nested
\* writer loads as a reader, whose entries round-trip in turn).
C1_RoundTrip ==
    /\ (source.kind = "finalize" /\ TopReader => reader.tag = "Ok")
    /\ (res.op = "load_entry" /\ WroteAs(res.key, res.X)
          => res.out.tag = "Ok" /\ res.out.val = expect.map[res.key].val)
    /\ (res.op = "load_recursive_reader" /\ WroteAs(res.key, "MemBufferWriter")
          => res.out.tag = "Ok")

\* C2: a load (load_entry, load_recursive_reader) of a key the reader holds
\* with a type tag other than the requested one returns
\* FieldTypeError(stored tag, requested tag), whatever the descriptor's
\* offset and length are.
C2_TypeMismatch ==
    res.op \in {"load_entry", "load_recursive_reader"}
      /\ res.key \in DOMAIN reader.offsets
      /\ reader.offsets[res.key].variable_type
           # (IF res.op = "load_entry" THEN get_mem_buffer_type(res.X)
              ELSE MemBuffer)
    => /\ res.out.tag = "FieldTypeError"
       /\ res.out.is = reader.offsets[res.key].variable_type
       /\ res.out.requested
            = (IF res.op = "load_entry" THEN get_mem_buffer_type(res.X)
               ELSE MemBuffer)

\* A text written by the driver, read as i32, and an i32 read as a text.
C2_Witness ==
    /\ res.op = "load_entry"
    /\ expect.known
    /\ res.out.tag = "FieldTypeError"
    /\ res.out.is = Text
    /\ res.out.requested = Integer32

\* C3: on the reader over a finalized buffer, every load of a key that was
\* never passed to add_entry returns FieldUnknown, whatever type is asked.
C3_UnknownKey ==
    res.op \in {"load_entry", "load_serde_entry", "load_recursive_reader"}
      /\ expect.known
      /\ expect.depth = 0
      /\ res.key \notin DOMAIN expect.map
    => res.out.tag = "FieldUnknown" /\ res.out.key = res.key

\* A writer with an entry under one key, asked for another key.
C3_Witness ==
    /\ res.op \in {"load_entry", "load_serde_entry", "load_recursive_reader"}
    /\ expect.known
    /\ expect.depth = 0
    /\ expect.map # << >>
    /\ res.key \notin DOMAIN expect.map
    /\ res.out.tag = "FieldUnknown"
\* Some offset slot of the table (bytes 16k .. 16k+4) lies inside b and
\* holds the sentinel.
SentinelSlot(b, e) ==
    \E k \in 0..(Len(b) \div RecordSize) :
        /\ RecordSize * k + 4 <= Len(b)
        /\ deserialize_i32_from(Slice(b, RecordSize * k, RecordSize * k + 4), e)
             = Sentinel

\* MemBufferReader::new returns a reader or WrongFormat, and WrongFormat
\* exactly when the buffer has fewer than 4 bytes or ends before an offset
\* slot holds the sentinel (the part of C4 that needs no finalized buffer).
HeaderExact ==
    TopReader =>
        /\ reader.tag \in {"Ok", "WrongFormat"}
        /\ (reader.tag = "WrongFormat"
              <=> (Len(buf) < 4 \/ ~SentinelSlot(buf, endian)))

\* C4: header validation.  HeaderExact, and every prefix of a finalized
\* buffer that is cut before the end of its sentinel (16 bytes for each
\* descriptor of the writer, and 4) is rejected with WrongFormat.
C4_HeaderValidation ==
    /\ HeaderExact
    /\ (TopReader /\ source.kind = "prefix"
          /\ Len(buf) < RecordSize * Cardinality(DOMAIN source.of) + 4
         => reader.tag = "WrongFormat")

\* C5: decoding never crashes.  Whatever buffer the reader was constructed
\* over, load_entry and load_recursive_reader end with a value or with one
\* of FieldUnknown, FieldTypeError, WrongFormat.
C5_NoCrash ==
    res.op \in {"load_entry", "load_recursive_reader"}
    => res.out.tag \in {"Ok", "FieldUnknown", "FieldTypeError", "WrongFormat"}

\* C6: load_serde_entry returns an error value, and does not panic, when
\* the key holds a text that does not parse as the requested type; the
\* errors of the text lookup come back unchanged.
C6_SerdeError ==
    res.op = "load_serde_entry" /\ expect.known
    => /\ res.out.tag # "Panic"
       /\ (res.key \notin DOMAIN reader.offsets => res.out.tag = "FieldUnknown")
       /\ (res.key \in DOMAIN reader.offsets
             /\ reader.offsets[res.key].variable_type # Text
            => res.out.tag = "FieldTypeError")
\* C7: finalize is read-only and idempotent.  A finalize call leaves the
\* writer (descriptor table, iteration order, payload) as it was, and a
\* second call with no add_entry since the first returns the bytes the
\* first returned.
C7_FinalizeReadOnly ==
    [][ \A i \in Finalized :
          Finalize(i) \/ FinalizeAgain(i)
          => /\ writers' = writers
             /\ (res'.op = "finalize" => res'.out.val = buf') ]_vars

\* A second finalize of a writer that holds two keys, one of them a nested
\* writer.
C7_Witness ==
    /\ res.op = "finalize"
    /\ res.out.val = buf
    /\ Len(writers[source.writer].order) = 2
    /\ \E key \in DOMAIN source.of : source.of[key].T = "MemBufferWriter"

\* C8: nested buffers.  The descriptor of a nested writer is tagged
\* MemBuffer and spans 16 bytes per descriptor of the inner writer, 4 bytes
\* of sentinel and the inner payload; load_recursive_reader on its key
\* yields a reader with as many entries as the inner writer, and loading
\* from that reader returns what was written into the inner writer.
C8_Nested ==
    /\ \A i \in WriterIds : \A key \in DOMAIN written[i] :
          written[i][key].T = "MemBufferWriter"
          => /\ writers[i].offsets[key].variable_type = MemBuffer
             /\ writers[i].offsets[key].pos.length
                  = RecordSize * Cardinality(DOMAIN written[i][key].val.w.offsets)
                    + 4 + Len(written[i][key].val.w.data)
    /\ (res.op = "load_recursive_reader" /\ WroteAs(res.key, "MemBufferWriter")
          => /\ res.out.tag = "Ok"
             /\ len(res.out.val)
                  = Cardinality(DOMAIN expect.map[res.key].val.w.offsets))
    /\ (res.op = "load_entry" /\ expect.depth >= 1 /\ WroteAs(res.key, res.X)
          => res.out.tag = "Ok" /\ res.out.val = expect.map[res.key].val)

\* C9: last write wins.  A key added twice has one descriptor in the
\* writer; the reader over the finalized buffer counts each key once, loads
\* the key as the value and type written last, and answers a request for an
\* earlier, different type with FieldTypeError.
C9_LastWriteWins ==
    /\ \A i \in WriterIds : DOMAIN writers[i].offsets = DOMAIN written[i]
    /\ (TopReader /\ expect.known
          /\ (\E key \in DOMAIN expect.map : expect.map[key].prev # << >>)
         => reader.tag = "Ok" /\ len(reader) = Cardinality(DOMAIN expect.map))
    /\ (res.op = "load_entry" /\ expect.known /\ expect.depth = 0
          /\ res.key \in DOMAIN expect.map
          /\ expect.map[res.key].prev # << >>
         => LET last == expect.map[res.key]
            IN /\ (res.X = last.T
                     => res.out.tag = "Ok" /\ res.out.val = last.val)
               /\ (res.X # last.T
                     /\ (\E n \in 1..Len(last.prev) : last.prev[n] = res.X)
                    => /\ res.out.tag = "FieldTypeError"
                       /\ res.out.is = get_mem_buffer_type(last.T)
                       /\ res.out.requested = get_mem_buffer_type(res.X)))

RECURSIVE SumLengths(_)
\* The sum of the length fields of a descriptor table.
SumLengths(offsets) ==
    IF DOMAIN offsets = {} THEN 0
    ELSE LET key == CHOOSE k \in DOMAIN offsets : TRUE
         IN offsets[key].pos.length
              + SumLengths([ k \in DOMAIN offsets \ {key} |-> offsets[k] ])

\* C10: payload size.  The payload of the reader over a finalized buffer
\* (payload_len) is as long as the sum of the length fields of the table.
C10_PayloadIsSum ==
    TopReader /\ source.kind = "finalize" /\ reader.tag = "Ok"
    => payload_len(reader) = SumLengths(reader.offsets)

\* What does hold of the sizes: a finalized buffer is 16 bytes per
\* descriptor of the writer, the sentinel and the writer's payload; the
\* payload is at least as long as the sum of the writer's length fields, and
\* as long when no key was added twice; payload_len() of the reader over the
\* buffer is at least the sum of the length fields of the reader's table.
PayloadAtLeastSum ==
    /\ \A i \in WriterIds :
          /\ Len(writers[i].data) >= SumLengths(writers[i].offsets)
          /\ ((\A key \in DOMAIN written[i] : written[i][key].prev = << >>)
               => Len(writers[i].data) = SumLengths(writers[i].offsets))
    /\ (source.kind = "finalize"
          => Len(buf) = RecordSize * Cardinality(DOMAIN writers[source.writer].offsets)
                          + 4 + Len(writers[source.writer].data))
    /\ (TopReader /\ source.kind = "finalize"
          => /\ reader.tag = "Ok"
             /\ payload_len(reader) >= SumLengths(reader.offsets))

\* C11: entry count.  The reader over a writer's finalized buffer has as
\* many entries as the writer holds descriptors, which is the number of
\* distinct keys passed to add_entry; the buffer of a writer with no entry
\* is the sentinel alone, and its reader has len() = 0 and payload_len() = 0.
C11_EntryCount ==
    /\ \A i \in WriterIds :
          Cardinality(DOMAIN writers[i].offsets) = Cardinality(DOMAIN written[i])
    /\ (source.kind = "finalize" /\ source.of = << >>
          => buf = serialize_i32_to(Sentinel, endian))
    /\ (TopReader /\ source.kind = "finalize"
          => /\ reader.tag = "Ok"
             /\ len(reader) = Cardinality(DOMAIN writers[source.writer].offsets)
             /\ len(reader) = Cardinality(DOMAIN source.of)
             /\ (source.of = << >> => payload_len(reader) = 0))

\* The step is writers[i].add_entry(key, val) for some value val.
AddEntryStep(i, key) ==
    \/ AddText(i, key)
    \/ AddI32(i, key)
    \/ AddVecU8(i, key)
    \/ AddVecU64(i, key)
    \/ \E j \in WriterIds : AddWriter(i, j, key)

\* s is a prefix of t.
IsPrefix(s, t) == Len(s) <= Len(t) /\ SubSeq(t, 1, Len(s)) = s

RecordOffset(b, n, e) ==
    deserialize_i32_from(Slice(b, RecordSize * n, RecordSize * n + 4), e)

\* C13: sentinel uniqueness.  In a finalized buffer no descriptor record has
\* an offset field equal to the sentinel, so the table of the reader over
\* the buffer is the table of the writer.
C13_SentinelUnique ==
    /\ (source.kind = "finalize"
          => \A n \in 0..(Cardinality(DOMAIN writers[source.writer].offsets) - 1) :
                RecordOffset(buf, n, endian) # Sentinel)
    /\ (TopReader /\ source.kind = "finalize"
          => /\ reader.tag = "Ok"
             /\ reader.offsets = writers[source.writer].offsets)

\* The descriptors of w that point into the payload (all but Integer32).
PayloadKeys(w) ==
    { k \in DOMAIN w.offsets : w.offsets[k].variable_type # Integer32 }

\* Descriptors as they stand in every writer: an Integer32 descriptor has
\* length 0 and the written value as its offset; any other descriptor lies
\* within the payload, and two of them do not overlap.
DescriptorsInPayload ==
    \A i \in WriterIds :
       LET w == writers[i]
       IN /\ \A k \in DOMAIN w.offsets \ PayloadKeys(w) :
                /\ w.offsets[k].pos.length = 0
                /\ k \in DOMAIN written[i]
                /\ written[i][k].T = "i32"
                /\ w.offsets[k].pos.offset = written[i][k].val
          /\ \A k \in PayloadKeys(w) :
                /\ 0 <= w.offsets[k].pos.offset
                /\ 0 <= w.offsets[k].pos.length
                /\ w.offsets[k].pos.offset + w.offsets[k].pos.length <= Len(w.data)
          /\ \A k1, k2 \in PayloadKeys(w) :
                k1 # k2
                => \/ w.offsets[k1].pos.offset + w.offsets[k1].pos.length
                        <= w.offsets[k2].pos.offset
                   \/ w.offsets[k2].pos.offset + w.offsets[k2].pos.length
                        <= w.offsets[k1].pos.offset

====
